---- MODULE Spec2Model ----
(***************************************************************************)
(* Model of the MuiAutocomplete binding adapter                            *)
(* (src/src/mui-form/components/MuiAutocomplete.tsx).                      *)
(*                                                                         *)
(* The component is re-invoked on every prop change, controller            *)
(* notification and widget event; the element tree it returns is kept in   *)
(* the variable `rendered`.  JavaScript values are tagged records so that  *)
(* undefined, null, false, strings and objects stay distinct.              *)
(***************************************************************************)
EXTENDS Integers, Sequences, FiniteSets, TLC

VARIABLES
  config,      \* props.config
  muiProps,    \* props.muiProps
  field,       \* Field Control Handle returned by useController
  fieldState,  \* Validation State Handle returned by useController
  rendered,    \* element tree returned by the last invocation
  event,       \* last event delivered to the component
  calls        \* callbacks invoked while that event was handled

vars == <<config, muiProps, field, fieldState, rendered, event, calls>>

\* ---------------------------------------------------------------- bounds
\* Number of distinct Options the dropdown can report as selected.
MaxOptions == 2
\* Largest number of caller-supplied properties in muiProps
\* (autocompleteProps and textFieldProps together).
MaxProps == 1

\* ------------------------------------------------------ JavaScript values
Undefined == [t |-> "undefined"]
Null == [t |-> "null"]
Bool(b) == [t |-> "boolean", b |-> b]
Str(s) == [t |-> "string", s |-> s]
Num(n) == [t |-> "number", n |-> n]
Fn(name) == [t |-> "function", name |-> name]
Arr(items) == [t |-> "array", items |-> items]
Obj(props) == [t |-> "object", props |-> props]
EmptyBag == [k \in {} |-> Undefined]

\* JavaScript truthiness, as used by `? :`, `&&` and `!!`.
Truthy(v) ==
  CASE v.t = "undefined" -> FALSE
    [] v.t = "null" -> FALSE
    [] v.t = "boolean" -> v.b
    [] v.t = "string" -> v.s # ""
    [] v.t = "number" -> v.n # 0
    [] OTHER -> TRUE

\* a && b
And(a, b) == IF Truthy(a) THEN b ELSE a

\* a ?? b
Coalesce(a, b) == IF a \in {Undefined, Null} THEN b ELSE a

\* a?.k
Get(a, k) ==
  IF a \in {Undefined, Null} THEN Undefined
  ELSE IF a.t = "object" /\ k \in DOMAIN a.props THEN a.props[k]
  ELSE Undefined

\* {...a}
Spread(a) == IF a.t = "object" THEN a.props ELSE EmptyBag

\* Later attributes of a JSX element override earlier ones.
Merge(a, b) ==
  [k \in (DOMAIN a) \cup (DOMAIN b) |-> IF k \in DOMAIN b THEN b[k] ELSE a[k]]

\* --------------------------------------------------------------- Options
OptionLabel(i) == IF i % 2 = 1 THEN "X" ELSE "Y"
AutocompleteOption(i) == Obj([label |-> Str(OptionLabel(i)), year |-> Num(i)])
Options == {AutocompleteOption(i) : i \in 1..MaxOptions}
AllOptions == [i \in 1..MaxOptions |-> AutocompleteOption(i)]

\* ---------------------------------------- collaborators' handles and events
\* Callbacks of the Field Control Handle.
fieldOnChange == Fn("field.onChange")
fieldOnBlur == Fn("field.onBlur")
fieldRef == Fn("field.ref")
\* Closures the component creates on each invocation.
adapterGetOptionLabel == Fn("option => option.label")
adapterOnChange == Fn("(_, value) => field.onChange(...)")
adapterRenderInput == Fn("params => <TextField/>")
\* Callbacks a caller may put into muiProps.autocompleteProps.
callerGetOptionLabel == Fn("caller.getOptionLabel")
callerOnChange == Fn("caller.onChange")
callerOnBlur == Fn("caller.onBlur")
callerRenderInput == Fn("caller.renderInput")
CallerFns == {callerGetOptionLabel, callerOnChange, callerOnBlur, callerRenderInput}

\* Synthetic events the dropdown hands to its handlers.
ChangeEvent == Obj([type |-> Str("change")])
BlurEvent == Obj([type |-> Str("blur")])

\* Validation results the controller can report: valid, or a FieldError
\* whose message is optional.
FieldErrors ==
  {Undefined} \cup
  {Obj([type |-> Str("required"), message |-> m]) :
     m \in {Undefined, Str(""), Str("Required")}}

\* ------------------------------------------------------------ prop values
\* props.config: absent, or any combination of the two optional flags.
ConfigKeys == {"displayErrorMessage", "manageWithLabel"}
Configs ==
  {Undefined} \cup
  {Obj(b) : b \in UNION {[D -> {Bool(FALSE), Bool(TRUE)}] : D \in SUBSET ConfigKeys}}

\* Values a caller can give to each property of autocompleteProps.
AutocompletePropValues ==
  [options |-> {Arr(<<>>), Arr(AllOptions)},
   getOptionLabel |-> {callerGetOptionLabel},
   onChange |-> {callerOnChange},
   onBlur |-> {callerOnBlur},
   renderInput |-> {callerRenderInput},
   disablePortal |-> {Bool(TRUE)}]

\* Values a caller can give to each property of textFieldProps.
TextFieldPropValues ==
  [label |-> {Str("Film")},
   name |-> {Str("callerName")},
   value |-> {Str("callerValue")},
   error |-> {Bool(TRUE)},
   helperText |-> {Str("callerHint")},
   size |-> {Str("small")}]

\* All property bags over `values` with at most n properties.
Bags(values, n) ==
  UNION {{b \in [D -> UNION {values[k] : k \in D}] : \A k \in D : b[k] \in values[k]} :
           D \in {E \in SUBSET DOMAIN values : Cardinality(E) <= n}}

Size(v) == IF v.t = "object" THEN Cardinality(DOMAIN v.props) ELSE 0

\* props.muiProps: absent, or an object whose two members are each optional.
MuiPropsSet ==
  {Undefined} \cup
  {Obj(m) :
     m \in UNION {
       {b \in [D -> {Obj(x) : x \in Bags(AutocompletePropValues, MaxProps)
                                   \cup Bags(TextFieldPropValues, MaxProps)}] :
          /\ \A k \in D :
               b[k].props \in (IF k = "autocompleteProps"
                                 THEN Bags(AutocompletePropValues, MaxProps)
                                 ELSE Bags(TextFieldPropValues, MaxProps))
          /\ Size(Get(Obj(b), "autocompleteProps"))
               + Size(Get(Obj(b), "textFieldProps")) <= MaxProps} :
       D \in SUBSET {"autocompleteProps", "textFieldProps"}}}

\* AutocompleteRenderInputParams: what the dropdown passes to renderInput.
\* Its key set is fixed by the widget and holds none of label, name, value,
\* error, helperText or inputRef.
params ==
  [id |-> Str("mui-1"), size |-> Str("medium"), fullWidth |-> Bool(TRUE)]

\* ---------------------------------------------------------- the component
\* const { autocompleteProps, textFieldProps } = muiProps ?? {};
autocompleteProps(mp) == Get(Coalesce(mp, Obj(EmptyBag)), "autocompleteProps")
textFieldProps(mp) == Get(Coalesce(mp, Obj(EmptyBag)), "textFieldProps")

\* Variant: the option list is forwarded without a default.
options_NoDefault(mp) == Get(autocompleteProps(mp), "options")

\* options={autocompleteProps?.options ?? []}
options(mp) == Coalesce(Get(autocompleteProps(mp), "options"), Arr(<<>>))

\* getOptionLabel={(option) => option.label}
getOptionLabel(option) == option.props["label"]

\* Variant: the selected value is always pushed as it is.
onChangeArg_AlwaysValue(cfg, value) == value

\* Variant: the label is always pushed.
onChangeArg_AlwaysLabel(cfg, value) == Get(value, "label")

\* The argument of field.onChange in the selection-change handler:
\* config?.manageWithLabel ? value?.label : value
onChangeArg(cfg, value) ==
  IF Truthy(Get(cfg, "manageWithLabel")) THEN Get(value, "label") ELSE value

\* Variant: the flag follows the message instead of the error.
error_FromMessage(fs) == Bool(Truthy(Get(fs.error, "message")))

\* error={!!fieldState.error}
error(fs) == Bool(Truthy(fs.error))

\* Variant: the message is shown whatever the config says.
helperText_Always(cfg, fs) == Get(fs.error, "message")

\* helperText={config?.displayErrorMessage && fieldState.error?.message}
helperText(cfg, fs) == And(Get(cfg, "displayErrorMessage"), Get(fs.error, "message"))

\* Variant: the blur slot is wired to the change notifier.
AutocompleteOverrides_BlurToChange(mp, fld) ==
  [id |-> Get(autocompleteProps(mp), "id"),
   options |-> options(mp),
   getOptionLabel |-> adapterGetOptionLabel,
   onChange |-> adapterOnChange,
   onBlur |-> fld.onChange,
   renderInput |-> adapterRenderInput]

\* Attributes the component sets on <Autocomplete> after the caller's spread.
AutocompleteOverrides(mp, fld) ==
  [id |-> Get(autocompleteProps(mp), "id"),
   options |-> options(mp),
   getOptionLabel |-> adapterGetOptionLabel,
   onChange |-> adapterOnChange,
   onBlur |-> fld.onBlur,
   renderInput |-> adapterRenderInput]

\* Variant: the caller's spread comes last.
AutocompleteElement_SpreadLast(mp, fld) ==
  Merge(AutocompleteOverrides(mp, fld), Spread(autocompleteProps(mp)))

\* <Autocomplete {...autocompleteProps} id=... ... renderInput=... />
AutocompleteElement(mp, fld) ==
  Merge(Spread(autocompleteProps(mp)), AutocompleteOverrides(mp, fld))

\* Variant: the component shows the value it last received from the
\* dropdown instead of the controller's.
TextFieldOverrides_LocalValue(cfg, fld, fs) ==
  [inputRef |-> fld.ref,
   name |-> fld.name,
   value |-> IF event.kind = "change" THEN event.args[2] ELSE fld.value,
   error |-> error(fs),
   helperText |-> helperText(cfg, fs)]

\* Attributes the component sets on <TextField> after both spreads.
TextFieldOverrides(cfg, fld, fs) ==
  [inputRef |-> fld.ref,
   name |-> fld.name,
   value |-> fld.value,
   error |-> error(fs),
   helperText |-> helperText(cfg, fs)]

\* Variant: the spreads come after the component's own attributes.
renderInput_SpreadsLast(cfg, mp, fld, fs, p) ==
  Merge(Merge(TextFieldOverrides(cfg, fld, fs), p), Spread(textFieldProps(mp)))

\* renderInput: <TextField {...textFieldProps} {...params} inputRef=... />
renderInput(cfg, mp, fld, fs, p) ==
  Merge(Merge(Spread(textFieldProps(mp)), p), TextFieldOverrides(cfg, fld, fs))

\* The elements of an option list (none when it is not an array).
Items(v) == IF v.t = "array" THEN v.items ELSE <<>>

\* What a display-text extractor returns for an option.
CallExtractor(fn, option) ==
  IF fn = adapterGetOptionLabel THEN getOptionLabel(option) ELSE Str("caller text")

\* What the dropdown's renderInput slot produces for the parameters p.
CallRenderInput(fn, cfg, mp, fld, fs, p) ==
  IF fn = adapterRenderInput THEN renderInput(cfg, mp, fld, fs, p) ELSE EmptyBag

\* One invocation of the component: the <Autocomplete> element, the
\* <TextField> its renderInput slot yields, and the display text the
\* dropdown obtains for each rendered option.
MuiAutocomplete(cfg, mp, fld, fs, p) ==
  LET el == AutocompleteElement(mp, fld) IN
    [autocomplete |-> el,
     textField |-> CallRenderInput(el["renderInput"], cfg, mp, fld, fs, p),
     optionLabels |-> [i \in DOMAIN Items(el["options"]) |->
                         CallExtractor(el["getOptionLabel"], Items(el["options"])[i])]]

\* Callbacks reached when the dropdown calls `handler` with `args`: the
\* component's own change handler forwards to field.onChange, any other
\* function is what gets called.
Invoke(handler, args, cfg) ==
  IF handler = adapterOnChange
    THEN <<[fn |-> fieldOnChange, args |-> <<onChangeArg(cfg, args[2])>>]>>
  ELSE IF handler.t = "function" THEN <<[fn |-> handler, args |-> args]>>
  ELSE <<>>

\* ------------------------------------------------------------ controller
\* useController(others): the handles for the field named by the props.
useController(name) ==
  [field |-> [name |-> name, value |-> Undefined, ref |-> fieldRef,
              onChange |-> fieldOnChange, onBlur |-> fieldOnBlur],
   fieldState |-> [error |-> Undefined]]

\* Field value after the callbacks in cs ran: field.onChange stores its
\* argument, nothing else touches the value.
ValueAfter(cs, v) ==
  IF \E i \in DOMAIN cs : cs[i].fn = fieldOnChange
    THEN cs[CHOOSE i \in DOMAIN cs : cs[i].fn = fieldOnChange].args[1]
    ELSE v

\* ----------------------------------------------------------------- steps
TypeOK ==
  /\ config \in Configs
  /\ muiProps \in MuiPropsSet
  /\ fieldState.error \in FieldErrors

Init ==
  /\ config = Undefined
  /\ muiProps = Undefined
  /\ field = useController(Str("film")).field
  /\ fieldState = useController(Str("film")).fieldState
  /\ event = [kind |-> "mount", args |-> <<>>]
  /\ calls = <<>>
  /\ rendered = MuiAutocomplete(config, muiProps, field, fieldState, params)

\* The dropdown calls the handler it was rendered with under attribute
\* `slot`, passing `args`: the callbacks that run.
Handled(slot, args) == Invoke(rendered.autocomplete[slot], args, config)

\* The user picks an option in the dropdown: the change handler runs, the
\* controller stores a pushed value and the component re-renders.
\* Validation runs asynchronously; its result arrives as a ValidationChange.
Select ==
  \E o \in Options :
    LET args == <<ChangeEvent, o>> IN
      /\ event' = [kind |-> "change", args |-> args]
      /\ calls' = Handled("onChange", args)
      /\ field' = [field EXCEPT !.value = ValueAfter(calls', field.value)]
      /\ rendered' = MuiAutocomplete(config, muiProps, field', fieldState, params)
      /\ UNCHANGED <<config, muiProps, fieldState>>

\* The user clears the selection: the change handler runs with null.
Clear ==
  LET args == <<ChangeEvent, Null>> IN
    /\ event' = [kind |-> "change", args |-> args]
    /\ calls' = Handled("onChange", args)
    /\ field' = [field EXCEPT !.value = ValueAfter(calls', field.value)]
    /\ rendered' = MuiAutocomplete(config, muiProps, field', fieldState, params)
    /\ UNCHANGED <<config, muiProps, fieldState>>

\* The dropdown loses focus: the blur handler runs.
Blur ==
  LET args == <<BlurEvent>> IN
    /\ event' = [kind |-> "blur", args |-> args]
    /\ calls' = Handled("onBlur", args)
    /\ field' = [field EXCEPT !.value = ValueAfter(calls', field.value)]
    /\ rendered' = MuiAutocomplete(config, muiProps, field', fieldState, params)
    /\ UNCHANGED <<config, muiProps, fieldState>>

\* The controller reports a new validation result.
ValidationChange ==
  /\ \E e \in FieldErrors \ {fieldState.error} :
       fieldState' = [fieldState EXCEPT !.error = e]
  /\ event' = [kind |-> "render", args |-> <<>>]
  /\ calls' = <<>>
  /\ rendered' = MuiAutocomplete(config, muiProps, field, fieldState', params)
  /\ UNCHANGED <<config, muiProps, field>>

\* The ways a caller can edit config between two renders: drop it, or set
\* or remove one flag.
ConfigEdits(cfg) ==
  LET c == Spread(cfg) IN
    {Undefined}
      \cup {Obj(Merge(c, [x \in {k} |-> Bool(b)])) : k \in ConfigKeys, b \in BOOLEAN}
      \cup {Obj([x \in (DOMAIN c) \ {k} |-> c[x]]) : k \in DOMAIN c}

\* The caller re-renders with a different config.
ConfigChange ==
  /\ \E c \in ConfigEdits(config) \ {config} : config' = c
  /\ event' = [kind |-> "render", args |-> <<>>]
  /\ calls' = <<>>
  /\ rendered' = MuiAutocomplete(config', muiProps, field, fieldState, params)
  /\ UNCHANGED <<muiProps, field, fieldState>>

\* muiProps with member `slot` set to the property bag `bag`.
WithSlot(mp, slot, bag) ==
  LET m == Spread(mp) IN
    Obj([k \in (DOMAIN m) \cup {slot} |-> IF k = slot THEN Obj(bag) ELSE m[k]])

\* muiProps without member `slot`.
WithoutSlot(mp, slot) ==
  LET m == Spread(mp) IN Obj([k \in (DOMAIN m) \ {slot} |-> m[k]])

\* The ways a caller can edit muiProps between two renders: drop it, drop
\* one member, or set or remove one property of one member.
MuiPropsEdits(mp) ==
  LET values(slot) == IF slot = "autocompleteProps"
                        THEN AutocompletePropValues ELSE TextFieldPropValues
      bag(slot) == Spread(Get(mp, slot))
  IN  {Undefined, Obj(EmptyBag)}
        \cup {WithoutSlot(mp, slot) : slot \in {"autocompleteProps", "textFieldProps"}}
        \cup UNION {UNION {{WithSlot(mp, slot, Merge(bag(slot), [x \in {k} |-> v])) :
                             v \in values(slot)[k]} : k \in DOMAIN values(slot)} :
                      slot \in {"autocompleteProps", "textFieldProps"}}
        \cup UNION {{WithSlot(mp, slot, [x \in (DOMAIN bag(slot)) \ {k} |-> bag(slot)[x]]) :
                       k \in DOMAIN bag(slot)} :
                      slot \in {"autocompleteProps", "textFieldProps"}}

\* The caller re-renders with different muiProps.
MuiPropsChange ==
  /\ \E m \in MuiPropsEdits(muiProps) \ {muiProps} :
       /\ Size(autocompleteProps(m)) + Size(textFieldProps(m)) <= MaxProps
       /\ muiProps' = m
  /\ event' = [kind |-> "render", args |-> <<>>]
  /\ calls' = <<>>
  /\ rendered' = MuiAutocomplete(config, muiProps', field, fieldState, params)
  /\ UNCHANGED <<config, field, fieldState>>

Next ==
  \/ Select
  \/ Clear
  \/ Blur
  \/ ValidationChange
  \/ ConfigChange
  \/ MuiPropsChange

Spec == Init /\ [][Next]_vars

\* ================================================================ claims
\* Shorthands for the current inputs and the last render.
manageWithLabel == Get(config, "manageWithLabel")
displayErrorMessage == Get(config, "displayErrorMessage")
message == Get(fieldState.error, "message")
callerAutocompleteProps == Spread(autocompleteProps(muiProps))
callerTextFieldProps == Spread(textFieldProps(muiProps))
selected == event.args[2]
IsSelection == event.kind = "change" /\ selected \in Options
IsClear == event.kind = "change" /\ selected = Null

\* C1: clearing the selection calls the field's change notifier with
\* null, never with undefined, whatever manageWithLabel is.
C1_ClearNeverPushesUndefined ==
  IsClear =>
    /\ Len(calls) = 1
    /\ calls[1].fn = fieldOnChange
    /\ calls[1].args[1] # Undefined

\* C2: with manageWithLabel true, a selection-change event carrying an
\* Option calls the field's change notifier exactly once, with the
\* Option's label string and not the Option.
C2_LabelPushed ==
  (IsSelection /\ manageWithLabel = Bool(TRUE)) =>
    /\ calls = <<[fn |-> fieldOnChange, args |-> <<selected.props["label"]>>]>>
    /\ calls[1].args[1].t = "string"

C2_Witness ==
  /\ IsSelection
  /\ manageWithLabel = Bool(TRUE)
  /\ calls[1].args = <<Str("X")>>

\* C3: with manageWithLabel false or unset, or config absent, a
\* selection-change event carrying an Option calls the field's change
\* notifier exactly once, with that Option itself.
C3_OptionPushed ==
  (IsSelection /\ manageWithLabel \in {Undefined, Bool(FALSE)}) =>
    calls = <<[fn |-> fieldOnChange, args |-> <<selected>>]>>

C3_Witness ==
  /\ IsSelection
  /\ config = Undefined
  /\ calls[1].args = <<AutocompleteOption(1)>>

\* C4: every property of the text input follows the three-tier
\* precedence: the component's inputRef, name, value, error and helperText
\* win; otherwise the dropdown's input parameters win; otherwise the
\* caller's textFieldProps setting is kept.  So a caller's label survives,
\* and a caller's name, value, error or helperText never does, also when
\* the field is valid.
AdapterKeys == {"inputRef", "name", "value", "error", "helperText"}

C4_ThreeTierPrecedence ==
  LET input == rendered.textField
      tf == callerTextFieldProps
  IN  /\ DOMAIN input = (DOMAIN tf) \cup (DOMAIN params) \cup AdapterKeys
      /\ \A k \in (DOMAIN input) \ AdapterKeys :
           input[k] = IF k \in DOMAIN params THEN params[k] ELSE tf[k]
      /\ "label" \in DOMAIN tf => input["label"] = tf["label"]
      /\ input["inputRef"] = field.ref
      /\ input["name"] = field.name
      /\ input["value"] = field.value
      /\ input["error"] = Bool(fieldState.error # Undefined)
      /\ input["helperText"] \in {Undefined, Bool(FALSE), message}
      /\ fieldState.error = Undefined =>
           input["error"] = Bool(FALSE) /\ ~Truthy(input["helperText"])

C4_Witness ==
  /\ "name" \in DOMAIN callerTextFieldProps
  /\ fieldState.error = Undefined
  /\ rendered.textField["name"] = Str("film")

\* C5: in every render the text input's error flag is true exactly when
\* the validation state reports an error, whatever displayErrorMessage is
\* and also without config.
C5_ErrorFlagIffInvalid ==
  rendered.textField["error"] = Bool(fieldState.error # Undefined)

C5_Witness ==
  /\ fieldState.error # Undefined
  /\ message = Undefined
  /\ displayErrorMessage # Bool(TRUE)
  /\ rendered.textField["error"] = Bool(TRUE)

\* C6: the helper text is the validation message exactly when
\* displayErrorMessage is true and the field is invalid with a message; in
\* every other case it is falsy, and is neither the message nor any string.
C6_HelperTextOnlyWhenAsked ==
  LET h == rendered.textField["helperText"] IN
    IF displayErrorMessage = Bool(TRUE) /\ message.t = "string"
      THEN h = message
      ELSE ~Truthy(h) /\ h.t # "string" /\ (message.t = "string" => h # message)

C6_Witness ==
  /\ displayErrorMessage = Bool(TRUE)
  /\ message = Str("Required")
  /\ rendered.textField["helperText"] = Str("Required")

\* C7: the option list given to the dropdown is always an array: the
\* caller's one when autocompleteProps supplies options, the empty one when
\* muiProps, autocompleteProps or options is left out.
C7_OptionsNeverAbsent ==
  LET o == rendered.autocomplete["options"] IN
    /\ o.t = "array"
    /\ o = IF "options" \in DOMAIN callerAutocompleteProps
             THEN callerAutocompleteProps["options"] ELSE Arr(<<>>)

C7_Witness ==
  /\ autocompleteProps(muiProps) # Undefined
  /\ "options" \notin DOMAIN callerAutocompleteProps
  /\ rendered.autocomplete["options"] = Arr(<<>>)

\* C8: whatever the caller puts in autocompleteProps, the dropdown gets the
\* label-reading extractor, the component's change handler, the field's
\* blur notifier and the component's renderInput, so no caller callback is
\* ever invoked; every other caller setting reaches the dropdown unchanged.
ForcedKeys == {"getOptionLabel", "onChange", "onBlur", "renderInput"}

C8_AdapterSlotsWin ==
  LET el == rendered.autocomplete
      ac == callerAutocompleteProps
  IN  /\ el["getOptionLabel"] = adapterGetOptionLabel
      /\ rendered.optionLabels =
           [i \in DOMAIN el["options"].items |-> el["options"].items[i].props["label"]]
      /\ el["onChange"] = adapterOnChange
      /\ el["onBlur"] = fieldOnBlur
      /\ el["renderInput"] = adapterRenderInput
      /\ \A i \in DOMAIN calls : calls[i].fn \notin CallerFns
      /\ \A k \in (DOMAIN ac) \ ForcedKeys : el[k] = ac[k]

C8_Witness ==
  /\ "onChange" \in DOMAIN callerAutocompleteProps
  /\ IsSelection
  /\ calls[1].fn = fieldOnChange

\* C9: a blur event calls the field's blur notifier exactly once with the
\* event it got, calls nothing else and leaves the field value as it was; a
\* selection-change event never calls the blur notifier.
C9_BlurOnlyBlurs ==
  [][/\ event'.kind = "blur" =>
          /\ calls' = <<[fn |-> fieldOnBlur, args |-> event'.args]>>
          /\ field'.value = field.value
     /\ event'.kind = "change" =>
          \A i \in DOMAIN calls' : calls'[i].fn # fieldOnBlur]_vars

C9_Witness ==
  /\ event.kind = "blur"
  /\ calls = <<[fn |-> fieldOnBlur, args |-> <<BlurEvent>>]>>
  /\ field.value \in Options

\* C10: the render depends on nothing but the current config, muiProps and
\* handle values: the input's value, name, error flag and helper text and
\* the dropdown's options are what a fresh invocation on the current inputs
\* yields, whatever events led here, and the input's value is the
\* controller's current field value.
Projection(r) ==
  <<r.textField["value"], r.textField["name"], r.textField["error"],
    r.textField["helperText"], r.autocomplete["options"]>>

====
